---- MODULE Spec2Model ----
(***************************************************************************)
(* Ride dispatch and lifecycle engine of aeras-backend.                    *)
(*                                                                         *)
(* The store (rides, pullers, points_history) is shared by concurrently    *)
(* running handler invocations.  A handler is cut at its awaits: every     *)
(* action below is the code between two awaits of one invocation.  Lookups *)
(* of reference data that no modelled operation changes (location blocks,  *)
(* the existence of a puller) are folded into the step that precedes them. *)
(* Repository.save(entity) is one store write that persists every column   *)
(* of the entity object the handler holds.  Timestamps are abstracted to   *)
(* "set or not set".                                                       *)
(***************************************************************************)
EXTENDS Integers, Sequences, FiniteSets, Bags, TLC

\* ---------------------------------------------------------------- bounds
NumPullers == 2
MaxRides == 1
MaxProcs == 2
MaxRejected == 1
MaxHistory == 2
RejectCap == 2
MaxTable == 11
MaxDistance == 150
MaxOffered == 2
MaxSockets == 2

\* ------------------------------------------------------- program constants
basePoints == 10
maxPullersToNotify == 10

\* ------------------------------------------------------------ input sets
Pullers == 1..NumPullers
PullerIdInputs == 1..(NumPullers + 1)
RideIdInputs == 1..MaxRides
BlockIds == {"B1", "B2"}
Undef == "undefined"
Distances == {0}
Deltas == {-3, 5}

\* the socket ids the server hands out
SocketIds == 1..MaxSockets

\* the rides that are on offer at the same time
OfferedRideIds == 1..MaxOffered

\* distances of a final position from the destination block, in whole meters
DistanceInputs == 0..MaxDistance

\* payloads of the aeras/ride-request topic: the documented shape and the
\* shape with the keys blockId / destinationId
HardwarePayloads ==
  { [startBlockId |-> a, destinationBlockId |-> b,
     blockId |-> Undef, destinationId |-> Undef] :
       a \in {"B1"}, b \in {"B2"} }
  \cup
  { [startBlockId |-> Undef, destinationBlockId |-> Undef,
     blockId |-> a, destinationId |-> b] :
       a \in {"B1", "BX"}, b \in {"B2", "BX"} }

\* ------------------------------------------------------------- the store
RideStatus ==
  {"PENDING_USER_CONFIRMATION", "SEARCHING", "ACCEPTED", "ACTIVE",
   "COMPLETED", "CANCELLED", "EXPIRED"}

PointReason ==
  {"RIDE_COMPLETION", "MANUAL_ADJUSTMENT", "REDEMPTION", "FRAUD_REVERSAL"}

NoPuller == 0
None == << >>
Some(x) == << x >>

\* a row of table rides; rejectedByPullers is the stored comma-joined text,
\* kept as the sequence of the ids it lists
Ride(startBlock, destinationBlock) ==
  [ status |-> "SEARCHING",
    puller |-> NoPuller,
    acceptTime |-> FALSE,
    pickupTime |-> FALSE,
    completionTime |-> FALSE,
    pointsAwarded |-> None,
    rejectedByPullers |-> << >>,
    startBlock |-> startBlock,
    destinationBlock |-> destinationBlock ]

\* a row of table pullers
Puller(p) ==
  [ pointsBalance |-> 0,
    isOnline |-> (p % 2 = 1),
    isActive |-> TRUE,
    lastKnownLat |-> Some(p),
    lastKnownLon |-> Some(1) ]

\* a row of table points_history
PointsHistory(puller, ride, pointsChange, reason) ==
  [ puller |-> puller, ride |-> ride,
    pointsChange |-> pointsChange, reason |-> reason ]

VARIABLES
  rides,      \* table rides: sequence of rows, the id is the index
  pullers,    \* table pullers: puller id -> row
  history,    \* table points_history: bag of rows
  timers,     \* per ride: the setTimeout callbacks bound to it
  procs,      \* handler invocations in flight: slot -> invocation
  sent,       \* the messages published or broadcast by the last step
  reply,      \* the answer the last step gave to a handler's caller
  told,       \* (ride, puller) pairs whose acceptRide call returned the ride
  connectedPullers,  \* the gateway's Map puller id -> socket id, as the
                     \* sequence of its entries in insertion order
  sockets     \* the state of every socket.io connection of the server

vars == << rides, pullers, history, timers, procs, sent, reply, told,
           connectedPullers, sockets >>

\* the state of the WebSocket gateway
gateway == << connectedPullers, sockets >>

\* no client has connected yet
Unconnected ==
  /\ connectedPullers = << >>
  /\ sockets = [ c \in SocketIds |-> "unused" ]

Slots == 1..MaxProcs
RideIds == 1..Len(rides)

\* ----------------------------------------------------------- invocations
Idle ==
  [ op |-> "idle", pc |-> "idle", rideId |-> 0, pullerId |-> 0,
    ride |-> None, puller |-> None, points |-> 0, tx |-> {} ]

NoReply == [ op |-> "none", rideId |-> 0, res |-> "none" ]
Reply(op, rideId, pullerId, res) ==
  [ op |-> op, rideId |-> rideId, res |-> res ]

FreeSlot(s) ==
  /\ procs[s].op = "idle"
  /\ \A t \in Slots : t < s => procs[t].op # "idle"

Msg(type, rideId, to, info) ==
  [ type |-> type, rideId |-> rideId, to |-> to, info |-> info ]


Init ==
  /\ Unconnected
  /\ rides = << >>
  /\ pullers = [ p \in Pullers |-> Puller(p) ]
  /\ history = EmptyBag
  /\ timers = << >>
  /\ procs = [ s \in Slots |-> Idle ]
  /\ sent = {}
  /\ reply = NoReply
  /\ told = {}

\* ------------------------------------------------ entity <-> row mapping
\* findOne hydrates rejectedByPullers (type simple-array) by splitting the
\* stored text: every element comes back as a string
hydrate(row) ==
  [ row EXCEPT !.rejectedByPullers =
      [ i \in 1..Len(row.rejectedByPullers) |->
          [ v |-> row.rejectedByPullers[i], str |-> TRUE ] ] ]

\* save joins the array back into text
persist(ent) ==
  [ ent EXCEPT !.rejectedByPullers =
      [ i \in 1..Len(ent.rejectedByPullers) |-> ent.rejectedByPullers[i].v ] ]

\* Array.prototype.includes with a number argument (strict equality)
includes(arr, id) ==
  \E i \in 1..Len(arr) : arr[i] = [ v |-> id, str |-> FALSE ]

\* pullersRepository.find({ isOnline: true, isActive: true }), in the order
\* of the ids
onlinePullers ==
  { p \in DOMAIN pullers : pullers[p].isOnline /\ pullers[p].isActive }

\* the truth value JavaScript gives a nullable number: null and 0 are falsy
truthy(v) == v # None /\ v[1] # 0

\* center of a location block
latitude(block) == IF block = "B1" THEN 1 ELSE 2
longitude(block) == 1

\* meters between two neighbouring points of the grid of coordinates
StepMeters == 250

\* calculateHaversineDistance: the great-circle distance in meters, taken on
\* a small grid where it is the number of grid steps between the two points
\* times the pitch of the grid
calculateHaversineDistance(lat1, lon1, lat2, lon2) ==
  StepMeters * ((IF lat1 > lat2 THEN lat1 - lat2 ELSE lat2 - lat1)
                  + (IF lon1 > lon2 THEN lon1 - lon2 ELSE lon2 - lon1))

\* distance of puller p (with a location) from the pickup block of a ride
distance(p, ride) ==
  calculateHaversineDistance(pullers[p].lastKnownLat[1],
                             pullers[p].lastKnownLon[1],
                             latitude(ride.startBlock),
                             longitude(ride.startBlock))

\* .filter(puller => puller.lastKnownLat && puller.lastKnownLon)
pullersWithDistance ==
  { p \in onlinePullers :
      truthy(pullers[p].lastKnownLat) /\ truthy(pullers[p].lastKnownLon) }

\* q comes before p after .sort((a, b) => a.distance - b.distance): the sort
\* is stable, so pullers at the same distance keep the order of the find
sortedBefore(q, p, ride) ==
  \/ distance(q, ride) < distance(p, ride)
  \/ distance(q, ride) = distance(p, ride) /\ q < p

\* .slice(0, maxPullersToNotify) of the sorted candidates
pullersToNotify(ride) ==
  { p \in pullersWithDistance :
      Cardinality({ q \in pullersWithDistance : sortedBefore(q, p, ride) })
        < maxPullersToNotify }

\* calculateEstimatedPoints: Math.max(5, basePoints - Math.floor(d / 100))
calculateEstimatedPoints(distanceInMeters) ==
  LET distancePenalty == distanceInMeters \div 100
  IN  IF basePoints - distancePenalty > 5 THEN basePoints - distancePenalty ELSE 5

\* the rideRequest payload published to puller `to`
RideRequest(rideId, to, estimatedPoints) ==
  [ type |-> "ride-request", rideId |-> rideId, to |-> to, info |-> "offer",
    estimatedPoints |-> estimatedPoints ]

\* ------------------------------------------------ ride request (hardware)
NoTimer == [ armed |-> 0, fired |-> 0, pc |-> "none", ride |-> None ]

\* MqttController.handleHardwareRideRequest up to the end of the insert in
\* RidesService.createRideFromHardware
HandleHardwareRideRequest(s, data) ==
  /\ FreeSlot(s)
  /\ LET blockId == data.blockId
         destinationId == data.destinationId
     IN
     IF blockId = Undef \/ destinationId = Undef
     THEN /\ reply' = Reply("ride-request", 0, 0, "not-received")
          /\ sent' = {}
          /\ UNCHANGED << rides, pullers, history, timers, procs, told >>
     ELSE IF blockId \notin BlockIds \/ destinationId \notin BlockIds
     THEN /\ reply' = Reply("ride-request", 0, 0, "NotFound")
          /\ sent' = {}
          /\ UNCHANGED << rides, pullers, history, timers, procs, told >>
     ELSE /\ Len(rides) < MaxRides
          /\ rides' = Append(rides, Ride(blockId, destinationId))
          /\ timers' = Append(timers, NoTimer)
          /\ sent' = ({ Msg("ride_update", Len(rides) + 1, 0, "SEARCHING") })
          /\ procs' = [ procs EXCEPT ![s] =
               [ Idle EXCEPT !.op = "createRideFromHardware",
                             !.pc = "distribute",
                             !.rideId = Len(rides) + 1 ] ]
          /\ reply' = NoReply
          /\ UNCHANGED << pullers, history, told >>
  /\ UNCHANGED gateway

\* distributeRideToNearbyPullers, then setTimeout, then the handler's answer
DistributeAndArm(s) ==
  /\ procs[s].op = "createRideFromHardware"
  /\ procs[s].pc = "distribute"
  /\ LET id == procs[s].rideId IN
     /\ sent' = { RideRequest(id, p, calculateEstimatedPoints(distance(p, rides[id]))) :
                    p \in pullersToNotify(rides[id]) }
     /\ timers' = [ timers EXCEPT ![id] =
          [ @ EXCEPT !.armed = @ + 1, !.pc = "armed" ] ]
     /\ reply' = Reply("ride-request", id, 0, "received")
  /\ procs' = [ procs EXCEPT ![s] = Idle ]
  /\ UNCHANGED << rides, pullers, history, told >>
  /\ UNCHANGED gateway

\* pullersRepository.find rejects inside distributeRideToNearbyPullers: the
\* exception leaves createRideFromHardware before setTimeout and is caught
\* by the handler
DistributeFails(s) ==
  /\ procs[s].op = "createRideFromHardware"
  /\ procs[s].pc = "distribute"
  /\ reply' = Reply("ride-request", procs[s].rideId, 0, "not-received")
  /\ procs' = [ procs EXCEPT ![s] = Idle ]
  /\ sent' = {}
  /\ UNCHANGED << rides, pullers, history, timers, told >>
  /\ UNCHANGED gateway

\* ------------------------------------------------------------ acceptRide
Finish(s) == [ procs EXCEPT ![s] = Idle ]

\* acceptRide without the lookup of the puller
AcceptRide_anyPuller(s, rideId, pullerId) ==
  /\ FreeSlot(s)
  /\ sent' = {}
  /\ UNCHANGED << rides, pullers, history, timers, told >>
  /\ IF rideId \notin RideIds
     THEN /\ reply' = Reply("acceptRide", rideId, pullerId, "NotFound")
          /\ UNCHANGED procs
     ELSE IF rides[rideId].status # "SEARCHING"
     THEN /\ reply' = Reply("acceptRide", rideId, pullerId, "BadRequest")
          /\ UNCHANGED procs
     ELSE /\ procs' = [ procs EXCEPT ![s] =
               [ Idle EXCEPT !.op = "acceptRide", !.pc = "save",
                             !.rideId = rideId, !.pullerId = pullerId,
                             !.ride = Some([ hydrate(rides[rideId]) EXCEPT
                                               !.puller = pullerId,
                                               !.status = "ACCEPTED",
                                               !.acceptTime = TRUE ]) ] ]
          /\ reply' = NoReply
  /\ UNCHANGED gateway

\* acceptRide that sends its notifications before the save
AcceptRide_notifiesFirst(s, rideId, pullerId) ==
  /\ FreeSlot(s)
  /\ UNCHANGED << rides, pullers, history, timers, told >>
  /\ IF rideId \notin RideIds
     THEN /\ reply' = Reply("acceptRide", rideId, pullerId, "NotFound")
          /\ sent' = {}
          /\ UNCHANGED procs
     ELSE IF rides[rideId].status # "SEARCHING"
     THEN /\ reply' = Reply("acceptRide", rideId, pullerId, "BadRequest")
          /\ sent' = {}
          /\ UNCHANGED procs
     ELSE IF pullerId \notin Pullers
     THEN /\ reply' = Reply("acceptRide", rideId, pullerId, "NotFound")
          /\ sent' = {}
          /\ UNCHANGED procs
     ELSE /\ procs' = [ procs EXCEPT ![s] =
               [ Idle EXCEPT !.op = "acceptRide", !.pc = "save",
                             !.rideId = rideId, !.pullerId = pullerId,
                             !.ride = Some([ hydrate(rides[rideId]) EXCEPT
                                               !.puller = pullerId,
                                               !.status = "ACCEPTED",
                                               !.acceptTime = TRUE ]) ] ]
          /\ sent' = { Msg("ride-filled", rideId, pullerId, "ACCEPTED"),
                       Msg("ride_filled", rideId, 0, "ACCEPTED") }
          /\ reply' = NoReply
  /\ UNCHANGED gateway

\* RidesService.acceptRide up to (not including) the save
AcceptRide(s, rideId, pullerId) ==
  /\ FreeSlot(s)
  /\ sent' = {}
  /\ UNCHANGED << rides, pullers, history, timers, told >>
  /\ IF rideId \notin RideIds
     THEN /\ reply' = Reply("acceptRide", rideId, pullerId, "NotFound")
          /\ UNCHANGED procs
     ELSE IF rides[rideId].status # "SEARCHING"
     THEN /\ reply' = Reply("acceptRide", rideId, pullerId, "BadRequest")
          /\ UNCHANGED procs
     ELSE IF pullerId \notin Pullers
     THEN /\ reply' = Reply("acceptRide", rideId, pullerId, "NotFound")
          /\ UNCHANGED procs
     ELSE /\ procs' = [ procs EXCEPT ![s] =
               [ Idle EXCEPT !.op = "acceptRide", !.pc = "save",
                             !.rideId = rideId, !.pullerId = pullerId,
                             !.ride = Some([ hydrate(rides[rideId]) EXCEPT
                                               !.puller = pullerId,
                                               !.status = "ACCEPTED",
                                               !.acceptTime = TRUE ]) ] ]
          /\ reply' = NoReply
  /\ UNCHANGED gateway

\* await this.ridesRepository.save(ride)
AcceptSave(s) ==
  /\ procs[s].op = "acceptRide"
  /\ procs[s].pc = "save"
  /\ rides' = [ rides EXCEPT ![procs[s].rideId] = persist(procs[s].ride[1]) ]
  /\ procs' = [ procs EXCEPT ![s].pc = "notify" ]
  /\ sent' = {}
  /\ reply' = NoReply
  /\ UNCHANGED << pullers, history, timers, told >>
  /\ UNCHANGED gateway

\* after the read of the online pullers: the four notifications, the return
\* of savedRide, and the status publication of the gateway's handler
AcceptNotify(s) ==
  /\ procs[s].op = "acceptRide"
  /\ procs[s].pc = "notify"
  /\ LET id == procs[s].rideId
         p == procs[s].pullerId
     IN
     /\ sent' = ({ Msg("ride-filled", id, p, "ACCEPTED"),
                             Msg("ride_filled", id, 0, "ACCEPTED"),
                             Msg("ride_update", id, 0, procs[s].ride[1].status),
                             Msg("ride-status", id, p, procs[s].ride[1].status) })
     /\ reply' = Reply("acceptRide", id, p, "ok")
     /\ told' = told \cup { << id, p >> }
  /\ procs' = Finish(s)
  /\ UNCHANGED << rides, pullers, history, timers >>
  /\ UNCHANGED gateway

\* the first of the four notifications throws: acceptRide rejects after the
\* save, the gateway's handler answers with an error event
AcceptNotifyFails(s) ==
  /\ procs[s].op = "acceptRide"
  /\ procs[s].pc = "notify"
  /\ sent' = {}
  /\ reply' = Reply("acceptRide", procs[s].rideId, procs[s].pullerId,
                    "notification-error")
  /\ procs' = Finish(s)
  /\ UNCHANGED << rides, pullers, history, timers, told >>
  /\ UNCHANGED gateway

\* ------------------------------------------------------------ rejectRide
\* RidesService.rejectRide up to (not including) the save, on a list that
\* holds fewer than cap ids
RejectRideUpTo(s, rideId, pullerId, cap) ==
  /\ FreeSlot(s)
  /\ sent' = {}
  /\ UNCHANGED << rides, pullers, history, timers, told >>
  /\ IF rideId \notin RideIds
     THEN /\ reply' = Reply("rejectRide", rideId, pullerId, "NotFound")
          /\ UNCHANGED procs
     ELSE IF rides[rideId].status # "SEARCHING"
     THEN /\ reply' = Reply("rejectRide", rideId, pullerId, "BadRequest")
          /\ UNCHANGED procs
     ELSE IF pullerId \notin Pullers
     THEN /\ reply' = Reply("rejectRide", rideId, pullerId, "NotFound")
          /\ UNCHANGED procs
     ELSE LET ride == hydrate(rides[rideId]) IN
          IF ~ includes(ride.rejectedByPullers, pullerId)
          THEN /\ Len(ride.rejectedByPullers) < cap
               /\ procs' = [ procs EXCEPT ![s] =
                    [ Idle EXCEPT !.op = "rejectRide", !.pc = "save",
                                  !.rideId = rideId, !.pullerId = pullerId,
                                  !.ride = Some([ ride EXCEPT !.rejectedByPullers =
                                     Append(@, [ v |-> pullerId, str |-> FALSE ]) ]) ] ]
               /\ reply' = NoReply
          ELSE /\ reply' = Reply("rejectRide", rideId, pullerId, "already-rejected")
               /\ UNCHANGED procs
  /\ UNCHANGED gateway

RejectRide(s, rideId, pullerId) ==
  RejectRideUpTo(s, rideId, pullerId, MaxRejected)

\* await this.ridesRepository.save(ride), the broadcast, the confirmation
RejectSave(s) ==
  /\ procs[s].op = "rejectRide"
  /\ procs[s].pc = "save"
  /\ LET id == procs[s].rideId
         p == procs[s].pullerId
     IN
     /\ rides' = [ rides EXCEPT ![id] = persist(procs[s].ride[1]) ]
     /\ sent' = ({ Msg("ride_update", id, 0, procs[s].ride[1].status),
                             Msg("ride-rejected", id, p, "recorded") })
     /\ reply' = Reply("rejectRide", id, p, "ok")
  /\ procs' = Finish(s)
  /\ UNCHANGED << pullers, history, timers, told >>
  /\ UNCHANGED gateway

\* await this.ridesRepository.save(ride), then the broadcast throws
RejectNotifyFails(s) ==
  /\ procs[s].op = "rejectRide"
  /\ procs[s].pc = "save"
  /\ rides' = [ rides EXCEPT ![procs[s].rideId] = persist(procs[s].ride[1]) ]
  /\ sent' = {}
  /\ reply' = Reply("rejectRide", procs[s].rideId, procs[s].pullerId,
                    "notification-error")
  /\ procs' = Finish(s)
  /\ UNCHANGED << pullers, history, timers, told >>
  /\ UNCHANGED gateway

\* ------------------------------------- rejectRide with redistribution
\* the earlier rejectRide: after the save, the broadcast and the
\* confirmation it awaits redistributeRideToNextPuller(ride)
RejectSaveEarlier(s) ==
  /\ procs[s].op = "rejectRide"
  /\ procs[s].pc = "save"
  /\ LET id == procs[s].rideId
         p == procs[s].pullerId
     IN
     /\ rides' = [ rides EXCEPT ![id] = persist(procs[s].ride[1]) ]
     /\ sent' = ({ Msg("ride_update", id, 0, procs[s].ride[1].status),
                   Msg("ride-rejected", id, p, "recorded") })
  /\ reply' = NoReply
  /\ procs' = [ procs EXCEPT ![s].pc = "redistribute" ]
  /\ UNCHANGED << pullers, history, timers, told >>
  /\ UNCHANGED gateway

\* onlinePullers.filter(lastKnownLat && lastKnownLon
\*   && !rejectedIds.includes(puller.id)) on the entity the caller holds
availablePullers(ride) ==
  { p \in pullersWithDistance : ~ includes(ride.rejectedByPullers, p) }

\* pullersWithDistance[0].puller of the sorted available pullers
nextPuller(ride) ==
  CHOOSE p \in availablePullers(ride) :
    \A q \in availablePullers(ride) \ {p} : sortedBefore(p, q, ride)

\* redistributeRideToNextPuller after its find, and the return of rejectRide
RedistributeRideToNextPuller(s) ==
  /\ procs[s].op = "rejectRide"
  /\ procs[s].pc = "redistribute"
  /\ LET ride == procs[s].ride[1] IN
     sent' = IF availablePullers(ride) = {} THEN {}
             ELSE { RideRequest(procs[s].rideId, nextPuller(ride), 10) }
  /\ reply' = Reply("rejectRide", procs[s].rideId, procs[s].pullerId, "ok")
  /\ procs' = Finish(s)
  /\ UNCHANGED << rides, pullers, history, timers, told >>
  /\ UNCHANGED gateway

\* ------------------------------------------------------------ pickupRide
\* pickupRide without the status guard
PickupRide_unguarded(s, rideId) ==
  /\ FreeSlot(s)
  /\ sent' = {}
  /\ UNCHANGED << rides, pullers, history, timers, told >>
  /\ IF rideId \notin RideIds
     THEN /\ reply' = Reply("pickupRide", rideId, 0, "NotFound")
          /\ UNCHANGED procs
     ELSE /\ procs' = [ procs EXCEPT ![s] =
               [ Idle EXCEPT !.op = "pickupRide", !.pc = "save",
                             !.rideId = rideId,
                             !.ride = Some([ hydrate(rides[rideId]) EXCEPT
                                               !.status = "ACTIVE",
                                               !.pickupTime = TRUE ]) ] ]
          /\ reply' = NoReply
  /\ UNCHANGED gateway

\* RidesService.pickupRide up to (not including) the save
PickupRide(s, rideId) ==
  /\ FreeSlot(s)
  /\ sent' = {}
  /\ UNCHANGED << rides, pullers, history, timers, told >>
  /\ IF rideId \notin RideIds
     THEN /\ reply' = Reply("pickupRide", rideId, 0, "NotFound")
          /\ UNCHANGED procs
     ELSE IF rides[rideId].status # "ACCEPTED"
     THEN /\ reply' = Reply("pickupRide", rideId, 0, "BadRequest")
          /\ UNCHANGED procs
     ELSE /\ procs' = [ procs EXCEPT ![s] =
               [ Idle EXCEPT !.op = "pickupRide", !.pc = "save",
                             !.rideId = rideId,
                             !.ride = Some([ hydrate(rides[rideId]) EXCEPT
                                               !.status = "ACTIVE",
                                               !.pickupTime = TRUE ]) ] ]
          /\ reply' = NoReply
  /\ UNCHANGED gateway

\* await this.ridesRepository.save(ride) and the two publications
PickupSave(s) ==
  /\ procs[s].op = "pickupRide"
  /\ procs[s].pc = "save"
  /\ LET id == procs[s].rideId IN
     /\ rides' = [ rides EXCEPT ![id] = persist(procs[s].ride[1]) ]
     /\ sent' = ({ Msg("ride_update", id, 0, procs[s].ride[1].status),
                             Msg("ride-status", id, 0, procs[s].ride[1].status) })
     /\ reply' = Reply("pickupRide", id, 0, "ok")
  /\ procs' = Finish(s)
  /\ UNCHANGED << pullers, history, timers, told >>
  /\ UNCHANGED gateway

\* await this.ridesRepository.save(ride), then the broadcast throws
PickupNotifyFails(s) ==
  /\ procs[s].op = "pickupRide"
  /\ procs[s].pc = "save"
  /\ rides' = [ rides EXCEPT ![procs[s].rideId] = persist(procs[s].ride[1]) ]
  /\ sent' = {}
  /\ reply' = Reply("pickupRide", procs[s].rideId, 0, "notification-error")
  /\ procs' = Finish(s)
  /\ UNCHANGED << pullers, history, timers, told >>
  /\ UNCHANGED gateway

\* ---------------------------------------------------------- autoExpireRide
\* autoExpireRide without the status guard: the callback expires the ride
\* whatever its status
AutoExpireRide_unguarded(rideId) ==
  /\ rideId \in RideIds
  /\ timers[rideId].pc = "armed"
  /\ timers' = [ timers EXCEPT ![rideId] =
       [ @ EXCEPT !.pc = "save", !.fired = @ + 1,
                  !.ride = Some([ hydrate(rides[rideId]) EXCEPT
                                    !.status = "EXPIRED" ]) ] ]
  /\ sent' = {}
  /\ reply' = NoReply
  /\ UNCHANGED << rides, pullers, history, procs, told >>
  /\ UNCHANGED gateway

\* the setTimeout callback runs autoExpireRide: the findOne and the guards
AutoExpireRide(rideId) ==
  /\ rideId \in RideIds
  /\ timers[rideId].pc = "armed"
  /\ IF rides[rideId].status # "SEARCHING"
     THEN timers' = [ timers EXCEPT ![rideId] =
            [ @ EXCEPT !.pc = "skipped", !.fired = @ + 1 ] ]
     ELSE timers' = [ timers EXCEPT ![rideId] =
            [ @ EXCEPT !.pc = "save", !.fired = @ + 1,
                       !.ride = Some([ hydrate(rides[rideId]) EXCEPT
                                         !.status = "EXPIRED" ]) ] ]
  /\ sent' = {}
  /\ reply' = NoReply
  /\ UNCHANGED << rides, pullers, history, procs, told >>
  /\ UNCHANGED gateway

\* the expiry written as an update of the status column alone
ExpireSave_statusOnly(rideId) ==
  /\ rideId \in RideIds
  /\ timers[rideId].pc = "save"
  /\ rides' = [ rides EXCEPT ![rideId].status = "EXPIRED" ]
  /\ sent' = ({ Msg("ride_update", rideId, 0, "EXPIRED") })
  /\ timers' = [ timers EXCEPT ![rideId].pc = "notify" ]
  /\ reply' = NoReply
  /\ UNCHANGED << pullers, history, procs, told >>
  /\ UNCHANGED gateway

\* await this.ridesRepository.save(ride) and the dashboard broadcast
ExpireSave(rideId) ==
  /\ rideId \in RideIds
  /\ timers[rideId].pc = "save"
  /\ rides' = [ rides EXCEPT ![rideId] = persist(timers[rideId].ride[1]) ]
  /\ sent' = ({ Msg("ride_update", rideId, 0, timers[rideId].ride[1].status) })
  /\ timers' = [ timers EXCEPT ![rideId].pc = "notify" ]
  /\ reply' = NoReply
  /\ UNCHANGED << pullers, history, procs, told >>
  /\ UNCHANGED gateway

\* the expiry notices sent only to the pullers that pass the location filter
\* of the distribution
ExpireNotify_candidatesOnly(rideId) ==
  /\ rideId \in RideIds
  /\ timers[rideId].pc = "notify"
  /\ sent' = ({ Msg("ride-expired", rideId, p, "EXPIRED") : p \in pullersWithDistance }
                        \cup { Msg("ride-status", rideId, 0, "EXPIRED") })
  /\ timers' = [ timers EXCEPT ![rideId] = [ @ EXCEPT !.pc = "done", !.ride = None ] ]
  /\ reply' = NoReply
  /\ UNCHANGED << rides, pullers, history, procs, told >>
  /\ UNCHANGED gateway

\* after the read of the online pullers: one ride-expired per puller and
\* the status publication
ExpireNotify(rideId) ==
  /\ rideId \in RideIds
  /\ timers[rideId].pc = "notify"
  /\ sent' = ({ Msg("ride-expired", rideId, p, "EXPIRED") : p \in onlinePullers }
                        \cup { Msg("ride-status", rideId, 0, "EXPIRED") })
  /\ timers' = [ timers EXCEPT ![rideId] = [ @ EXCEPT !.pc = "done", !.ride = None ] ]
  /\ reply' = NoReply
  /\ UNCHANGED << rides, pullers, history, procs, told >>
  /\ UNCHANGED gateway

\* await this.ridesRepository.save(ride), then the dashboard broadcast
\* throws: the catch of autoExpireRide logs the error
ExpireBroadcastFails(rideId) ==
  /\ rideId \in RideIds
  /\ timers[rideId].pc = "save"
  /\ rides' = [ rides EXCEPT ![rideId] = persist(timers[rideId].ride[1]) ]
  /\ sent' = {}
  /\ timers' = [ timers EXCEPT ![rideId] = [ @ EXCEPT !.pc = "failed", !.ride = None ] ]
  /\ reply' = NoReply
  /\ UNCHANGED << pullers, history, procs, told >>
  /\ UNCHANGED gateway

\* after the read of the online pullers a publication throws: the catch of
\* autoExpireRide logs the error
ExpireNotifyFails(rideId) ==
  /\ rideId \in RideIds
  /\ timers[rideId].pc = "notify"
  /\ sent' = {}
  /\ timers' = [ timers EXCEPT ![rideId] = [ @ EXCEPT !.pc = "failed", !.ride = None ] ]
  /\ reply' = NoReply
  /\ UNCHANGED << rides, pullers, history, procs, told >>
  /\ UNCHANGED gateway

\* ----------------------------------------------------------- puller status
\* PullersService.setOnlineStatus: findOne, the NotFound guard, the save of
\* the puller with the new flag, the status broadcast to the dashboards
\* (taken as one step: no other operation of the specifications that use it
\* writes the pullers table)
SetOnlineStatus(pullerId, isOnline) ==
  /\ IF pullerId \notin DOMAIN pullers
     THEN /\ reply' = Reply("setOnlineStatus", 0, pullerId, "NotFound")
          /\ sent' = {}
          /\ UNCHANGED pullers
     ELSE /\ pullers[pullerId].isOnline # isOnline
          /\ pullers' = [ pullers EXCEPT ![pullerId].isOnline = isOnline ]
          /\ sent' = { Msg("puller_status_update", 0, pullerId,
                           IF isOnline THEN "online" ELSE "offline") }
          /\ reply' = Reply("setOnlineStatus", 0, pullerId, "ok")
  /\ UNCHANGED << rides, history, timers, procs, told >>
  /\ UNCHANGED gateway

\* ------------------------------------------------ puller administration
\* the bodies of POST /pullers and PUT /pullers/:id after the whitelist of
\* the validation pipe: an absent key is None (name and phone carry no
\* state of the model)
CreatePullerDtos ==
  { [ pointsBalance |-> None, isActive |-> None ],
    [ pointsBalance |-> Some(7), isActive |-> Some(FALSE) ] }

UpdatePullerDtos ==
  { [ pointsBalance |-> None, isActive |-> None, isOnline |-> Some(TRUE) ],
    [ pointsBalance |-> Some(7), isActive |-> Some(FALSE), isOnline |-> None ] }

\* Object.assign(puller, dto): the keys the dto has replace the entity's
assign(puller, dto) ==
  [ puller EXCEPT
      !.pointsBalance = IF dto.pointsBalance = None THEN @ ELSE dto.pointsBalance[1],
      !.isActive = IF dto.isActive = None THEN @ ELSE dto.isActive[1],
      !.isOnline = IF dto.isOnline = None THEN @ ELSE dto.isOnline[1] ]

\* findOne({ where: { id: pullerId } }), the NotFound guard and the
\* assignments to the loaded entity, up to the await of the save
FindPuller(s, op, pullerId, entity) ==
  /\ FreeSlot(s)
  /\ sent' = {}
  /\ UNCHANGED << rides, pullers, history, timers, told >>
  /\ IF pullerId \notin DOMAIN pullers
     THEN /\ reply' = Reply(op, 0, pullerId, "NotFound")
          /\ UNCHANGED procs
     ELSE /\ procs' = [ procs EXCEPT ![s] =
               [ Idle EXCEPT !.op = op, !.pc = "save", !.pullerId = pullerId,
                             !.puller = Some(entity) ] ]
          /\ reply' = NoReply
  /\ UNCHANGED gateway

\* await this.pullersRepository.save(puller)
SavePuller(s, op) ==
  /\ procs[s].op = op
  /\ procs[s].pc = "save"
  /\ pullers' = [ pullers EXCEPT ![procs[s].pullerId] = procs[s].puller[1] ]
  /\ procs' = Finish(s)
  /\ reply' = Reply(op, 0, procs[s].pullerId, "ok")
  /\ UNCHANGED << rides, history, timers, told >>

\* PullersService.updateLocation
UpdateLocation(s, pullerId, lat, lon) ==
  FindPuller(s, "updateLocation", pullerId,
             IF pullerId \in DOMAIN pullers
             THEN [ pullers[pullerId] EXCEPT !.lastKnownLat = Some(lat),
                                             !.lastKnownLon = Some(lon) ]
             ELSE None)

UpdateLocationSave(s) ==
  /\ SavePuller(s, "updateLocation")
  /\ sent' = {}
  /\ UNCHANGED gateway

\* PullersService.setOnlineStatus cut at its awaits: findOne, then the save
\* and the status broadcast
SetOnlineStatusFind(s, pullerId, isOnline) ==
  FindPuller(s, "setOnlineStatus", pullerId,
             IF pullerId \in DOMAIN pullers
             THEN [ pullers[pullerId] EXCEPT !.isOnline = isOnline ]
             ELSE None)

SetOnlineStatusSave(s) ==
  /\ SavePuller(s, "setOnlineStatus")
  /\ sent' = { Msg("puller_status_update", 0, procs[s].pullerId,
                   IF procs[s].puller[1].isOnline THEN "online" ELSE "offline") }
  /\ UNCHANGED gateway

\* PullersService.suspendPuller
SuspendPuller(s, pullerId) ==
  FindPuller(s, "suspendPuller", pullerId,
             IF pullerId \in DOMAIN pullers
             THEN [ pullers[pullerId] EXCEPT !.isActive = FALSE, !.isOnline = FALSE ]
             ELSE None)

SuspendPullerSave(s) ==
  /\ SavePuller(s, "suspendPuller")
  /\ sent' = {}
  /\ UNCHANGED gateway

\* PullersService.unsuspendPuller
UnsuspendPuller(s, pullerId) ==
  FindPuller(s, "unsuspendPuller", pullerId,
             IF pullerId \in DOMAIN pullers
             THEN [ pullers[pullerId] EXCEPT !.isActive = TRUE ]
             ELSE None)

UnsuspendPullerSave(s) ==
  /\ SavePuller(s, "unsuspendPuller")
  /\ sent' = {}
  /\ UNCHANGED gateway

\* PullersService.updatePuller (the phone of the dto is the puller's own)
UpdatePuller(s, pullerId, updatePullerDto) ==
  FindPuller(s, "updatePuller", pullerId,
             IF pullerId \in DOMAIN pullers
             THEN assign(pullers[pullerId], updatePullerDto)
             ELSE None)

UpdatePullerSave(s) ==
  /\ SavePuller(s, "updatePuller")
  /\ sent' = {}
  /\ UNCHANGED gateway

\* PullersService.createPuller with a phone no puller has: the new row gets
\* the next id of the table
CreatePuller(createPullerDto) ==
  LET id == Cardinality(DOMAIN pullers) + 1
      puller ==
        [ pointsBalance |-> IF createPullerDto.pointsBalance = None
                            THEN 0 ELSE createPullerDto.pointsBalance[1],
          isActive |-> IF createPullerDto.isActive = None
                       THEN TRUE ELSE createPullerDto.isActive[1],
          isOnline |-> FALSE,
          lastKnownLat |-> None,
          lastKnownLon |-> None ]
  IN
  /\ id \in PullerIdInputs
  /\ pullers' = [ p \in DOMAIN pullers \cup {id} |->
                    IF p = id THEN puller ELSE pullers[p] ]
  /\ sent' = {}
  /\ reply' = Reply("createPuller", 0, id, "ok")
  /\ UNCHANGED << rides, history, timers, procs, told >>
  /\ UNCHANGED gateway

\* --------------------------------------------------- WebSocket gateway
\* connectedPullers.get(pullerId): the socket id of the entry of the
\* puller, None when the Map has none
get(map, pullerId) ==
  IF \E i \in 1..Len(map) : map[i].pullerId = pullerId
  THEN Some((CHOOSE e \in { map[i] : i \in 1..Len(map) } :
               e.pullerId = pullerId).socketId)
  ELSE None

\* connectedPullers.set(pullerId, socketId): the value of an existing key
\* is replaced in place, a new key is appended
set(map, pullerId, socketId) ==
  IF \E i \in 1..Len(map) : map[i].pullerId = pullerId
  THEN [ i \in 1..Len(map) |->
           IF map[i].pullerId = pullerId
           THEN [ pullerId |-> pullerId, socketId |-> socketId ]
           ELSE map[i] ]
  ELSE Append(map, [ pullerId |-> pullerId, socketId |-> socketId ])

\* connectedPullers.delete(pullerId)
delete(map, pullerId) ==
  SelectSeq(map, LAMBDA e : e.pullerId # pullerId)

\* the event server.to(socketId).emit(event, data) sends
Emitted(event, pullerId, socketId) ==
  [ type |-> event, rideId |-> 0, to |-> pullerId, info |-> "socket",
    socketId |-> socketId ]

\* NotificationsGateway.handleConnection: a client connects with a new id
HandleConnection(client) ==
  /\ sockets[client] = "unused"
  /\ sockets' = [ sockets EXCEPT ![client] = "connected" ]
  /\ sent' = {}
  /\ reply' = NoReply
  /\ UNCHANGED << rides, pullers, history, timers, procs, told, connectedPullers >>

\* NotificationsGateway.handlePullerRegistration up to the await of the
\* findOne of setOnlineStatus(pullerId, true); an unknown puller makes
\* setOnlineStatus throw, which the handler catches before it answers
HandlePullerRegistration(s, client, pullerId) ==
  /\ FreeSlot(s)
  /\ sockets[client] = "connected"
  /\ connectedPullers' = set(connectedPullers, pullerId, client)
  /\ sent' = {}
  /\ UNCHANGED << rides, pullers, history, timers, told, sockets >>
  /\ IF pullerId \notin DOMAIN pullers
     THEN /\ reply' = Reply("register_puller", 0, pullerId, "ok")
          /\ UNCHANGED procs
     ELSE /\ procs' = [ procs EXCEPT ![s] =
               [ Idle EXCEPT !.op = "register_puller", !.pc = "save",
                             !.pullerId = pullerId,
                             !.puller = Some([ pullers[pullerId] EXCEPT
                                                 !.isOnline = TRUE ]) ] ]
          /\ reply' = NoReply

\* the save and the broadcast of setOnlineStatus, the status publication
\* and the answer puller_registered
RegistrationSave(s) ==
  /\ SavePuller(s, "register_puller")
  /\ sent' = { Msg("puller_status_update", 0, procs[s].pullerId, "online"),
               Msg("puller-status", 0, procs[s].pullerId, "online") }
  /\ UNCHANGED gateway

\* NotificationsGateway.handleDisconnect up to the await of the findOne of
\* setOnlineStatus(pullerId, false): the loop deletes the first entry in
\* insertion order that holds the socket, and breaks
HandleDisconnect(s, client) ==
  /\ FreeSlot(s)
  /\ sockets[client] = "connected"
  /\ sockets' = [ sockets EXCEPT ![client] = "disconnected" ]
  /\ sent' = {}
  /\ reply' = NoReply
  /\ UNCHANGED << rides, pullers, history, timers, told >>
  /\ LET held == { i \in 1..Len(connectedPullers) :
                     connectedPullers[i].socketId = client }
     IN
     IF held = {}
     THEN UNCHANGED << connectedPullers, procs >>
     ELSE LET first == CHOOSE i \in held : \A j \in held : i <= j
              pullerId == connectedPullers[first].pullerId
          IN
          /\ connectedPullers' = delete(connectedPullers, pullerId)
          /\ IF pullerId \notin DOMAIN pullers
             THEN UNCHANGED procs
             ELSE procs' = [ procs EXCEPT ![s] =
                    [ Idle EXCEPT !.op = "disconnect", !.pc = "save",
                                  !.pullerId = pullerId,
                                  !.puller = Some([ pullers[pullerId] EXCEPT
                                                      !.isOnline = FALSE ]) ] ]

\* the save and the broadcast of setOnlineStatus and the status publication
DisconnectSave(s) ==
  /\ SavePuller(s, "disconnect")
  /\ sent' = { Msg("puller_status_update", 0, procs[s].pullerId, "offline"),
               Msg("puller-status", 0, procs[s].pullerId, "offline") }
  /\ UNCHANGED gateway

\* NotificationsGateway.sendRideRequestToPuller, that is sendToPuller with
\* the event new_ride_request
SendToPuller(pullerId) ==
  /\ sent' = IF get(connectedPullers, pullerId) = None THEN {}
             ELSE { Emitted("new_ride_request", pullerId,
                            get(connectedPullers, pullerId)[1]) }
  /\ reply' = NoReply
  /\ UNCHANGED << rides, pullers, history, timers, procs, told, gateway >>

\* ---------------------------------------------------------- transactions
\* the points with one point taken off per completed 10 meters
calculatedPoints_perFullTen(d) ==
  IF basePoints - (d \div 10) > 0 THEN basePoints - (d \div 10) ELSE 0

\* Math.max(0, Math.floor(basePoints - distanceFromDestination / 10)) for a
\* distance of d whole meters
calculatedPoints(d) ==
  LET penalty == (d + 9) \div 10
  IN  IF basePoints - penalty > 0 THEN basePoints - penalty ELSE 0

\* the row a write w of invocation pr produces in the store st
ApplyWrite(st, pr, w) ==
  IF w = "ride"
  THEN [ st EXCEPT !.rides[pr.rideId] = persist(pr.ride[1]) ]
  ELSE IF w = "puller"
  THEN [ st EXCEPT !.pullers[pr.pullerId] = pr.puller[1] ]
  ELSE [ st EXCEPT !.history = @ (+) SetToBag({
           PointsHistory(pr.pullerId, pr.rideId, pr.points,
             IF pr.op = "completeRide" THEN "RIDE_COMPLETION"
                                       ELSE "MANUAL_ADJUSTMENT") }) ]

RECURSIVE ApplyWrites(_, _, _)
ApplyWrites(st, pr, ws) ==
  IF ws = {} THEN st
  ELSE LET w == CHOOSE x \in ws : TRUE
       IN  ApplyWrites(ApplyWrite(st, pr, w), pr, ws \ {w})

Store == [ rides |-> rides, pullers |-> pullers, history |-> history ]

\* manager.save outside a transaction: the write is visible at once
managerSave_autocommit(st, pr, w) ==
  [ st |-> ApplyWrite(st, pr, w), tx |-> pr.tx ]

\* queryRunner.manager.save inside the open transaction: the write is held
\* by the transaction and not visible outside
managerSave(st, pr, w) ==
  [ st |-> st, tx |-> pr.tx \cup {w} ]

\* queryRunner.commitTransaction makes the held writes visible at once
commitTransaction(st, pr) == ApplyWrites(st, pr, pr.tx)

\* one save step of invocation s: write w, then continue at pc next
TxSave(s, w, next) ==
  LET r == managerSave(Store, procs[s], w) IN
  /\ rides' = r.st.rides
  /\ pullers' = r.st.pullers
  /\ history' = r.st.history
  /\ procs' = [ procs EXCEPT ![s].tx = r.tx, ![s].pc = next ]

TxCommit(s) ==
  LET st == commitTransaction(Store, procs[s]) IN
  /\ rides' = st.rides
  /\ pullers' = st.pullers
  /\ history' = st.history
  /\ procs' = Finish(s)

InTx(s) == procs[s].pc \in {"saveRide", "savePuller", "saveHistory", "commit"}

\* the ledger rows written or about to be written (bounds the model)
LedgerLoad == BagCardinality(history) + Cardinality({ s \in Slots : InTx(s) })

\* ----------------------------------------------------------- completeRide
\* RidesService.completeRide: startTransaction, findOne, the guards, the
\* computation of the points (d: distance of the final position from the
\* destination block, in meters)
CompleteRide(s, rideId, d) ==
  /\ FreeSlot(s)
  /\ LedgerLoad < MaxHistory
  /\ sent' = {}
  /\ UNCHANGED << rides, pullers, history, timers, told >>
  /\ IF rideId \notin RideIds
     THEN /\ reply' = Reply("completeRide", rideId, 0, "NotFound")
          /\ UNCHANGED procs
     ELSE IF rides[rideId].status # "ACTIVE"
     THEN /\ reply' = Reply("completeRide", rideId, 0, "BadRequest")
          /\ UNCHANGED procs
     ELSE IF rides[rideId].puller = NoPuller
     THEN /\ reply' = Reply("completeRide", rideId, 0, "BadRequest")
          /\ UNCHANGED procs
     ELSE LET p == rides[rideId].puller
              points == calculatedPoints(d)
          IN
          /\ procs' = [ procs EXCEPT ![s] =
               [ Idle EXCEPT !.op = "completeRide", !.pc = "saveRide",
                             !.rideId = rideId, !.pullerId = p,
                             !.points = points,
                             !.ride = Some([ hydrate(rides[rideId]) EXCEPT
                                               !.status = "COMPLETED",
                                               !.completionTime = TRUE,
                                               !.pointsAwarded = Some(points) ]),
                             !.puller = Some([ pullers[p] EXCEPT
                                               !.pointsBalance = @ + points ]) ] ]
          /\ reply' = NoReply
  /\ UNCHANGED gateway

\* await queryRunner.manager.save(Ride, ride)
CompleteSaveRide(s) ==
  /\ procs[s].op = "completeRide"
  /\ procs[s].pc = "saveRide"
  /\ TxSave(s, "ride", "savePuller")
  /\ sent' = {}
  /\ reply' = NoReply
  /\ UNCHANGED << timers, told >>
  /\ UNCHANGED gateway

\* await queryRunner.manager.save(Puller, ride.puller)
CompleteSavePuller(s) ==
  /\ procs[s].op = "completeRide"
  /\ procs[s].pc = "savePuller"
  /\ TxSave(s, "puller", "saveHistory")
  /\ sent' = {}
  /\ reply' = NoReply
  /\ UNCHANGED << timers, told >>
  /\ UNCHANGED gateway

\* await queryRunner.manager.save(PointsHistory, pointsHistory)
CompleteSaveHistory(s) ==
  /\ procs[s].op = "completeRide"
  /\ procs[s].pc = "saveHistory"
  /\ TxSave(s, "history", "commit")
  /\ sent' = {}
  /\ reply' = NoReply
  /\ UNCHANGED << timers, told >>
  /\ UNCHANGED gateway

\* await queryRunner.commitTransaction() and the three publications
CompleteCommit(s) ==
  /\ procs[s].op = "completeRide"
  /\ procs[s].pc = "commit"
  /\ TxCommit(s)
  /\ LET id == procs[s].rideId IN
     /\ sent' = ({ Msg("ride_update", id, 0, "COMPLETED"),
                             Msg("ride-status", id, 0, "COMPLETED"),
                             Msg("ride-completed", id, procs[s].pullerId, "COMPLETED") })
     /\ reply' = Reply("completeRide", id, procs[s].pullerId, "ok")
  /\ UNCHANGED << timers, told >>
  /\ UNCHANGED gateway

\* a notification failure after which the rollback of the catch block
\* discards the settlement
CompleteNotifyFails_rollsBack(s) ==
  /\ procs[s].op = "completeRide"
  /\ procs[s].pc = "commit"
  /\ procs' = Finish(s)
  /\ sent' = {}
  /\ reply' = Reply("completeRide", procs[s].rideId, procs[s].pullerId,
                    "notification-error")
  /\ UNCHANGED << rides, pullers, history, timers, told >>
  /\ UNCHANGED gateway

\* await queryRunner.commitTransaction(), then the broadcast throws: the
\* catch calls rollbackTransaction on the committed transaction, which
\* undoes nothing, and the error reaches the caller
CompleteNotifyFails(s) ==
  /\ procs[s].op = "completeRide"
  /\ procs[s].pc = "commit"
  /\ TxCommit(s)
  /\ sent' = {}
  /\ reply' = Reply("completeRide", procs[s].rideId, procs[s].pullerId,
                    "notification-error")
  /\ UNCHANGED << timers, told >>
  /\ UNCHANGED gateway

\* a save or the commit throws: catch, rollbackTransaction, rethrow
CompleteFails(s) ==
  /\ procs[s].op = "completeRide"
  /\ InTx(s)
  /\ procs' = Finish(s)
  /\ reply' = Reply("completeRide", procs[s].rideId, procs[s].pullerId, "error")
  /\ sent' = {}
  /\ UNCHANGED << rides, pullers, history, timers, told >>
  /\ UNCHANGED gateway

\* ----------------------------------------------------------- adjustPoints
\* AdminService.adjustPoints and PullersService.adjustPoints (the same
\* code): startTransaction, findOne, the guard, the new balance
AdjustPoints(s, pullerId, points) ==
  /\ FreeSlot(s)
  /\ LedgerLoad < MaxHistory
  /\ sent' = {}
  /\ UNCHANGED << rides, pullers, history, timers, told >>
  /\ IF pullerId \notin DOMAIN pullers
     THEN /\ reply' = Reply("adjustPoints", 0, pullerId, "NotFound")
          /\ UNCHANGED procs
     ELSE /\ procs' = [ procs EXCEPT ![s] =
               [ Idle EXCEPT !.op = "adjustPoints", !.pc = "savePuller",
                             !.pullerId = pullerId, !.points = points,
                             !.puller = Some([ pullers[pullerId] EXCEPT
                                               !.pointsBalance = @ + points ]) ] ]
          /\ reply' = NoReply
  /\ UNCHANGED gateway

\* await queryRunner.manager.save(Puller, puller)
AdjustSavePuller(s) ==
  /\ procs[s].op = "adjustPoints"
  /\ procs[s].pc = "savePuller"
  /\ TxSave(s, "puller", "saveHistory")
  /\ sent' = {}
  /\ reply' = NoReply
  /\ UNCHANGED << timers, told >>
  /\ UNCHANGED gateway

\* await queryRunner.manager.save(PointsHistory, pointsHistory)
AdjustSaveHistory(s) ==
  /\ procs[s].op = "adjustPoints"
  /\ procs[s].pc = "saveHistory"
  /\ TxSave(s, "history", "commit")
  /\ sent' = {}
  /\ reply' = NoReply
  /\ UNCHANGED << timers, told >>
  /\ UNCHANGED gateway

\* await queryRunner.commitTransaction()
AdjustCommit(s) ==
  /\ procs[s].op = "adjustPoints"
  /\ procs[s].pc = "commit"
  /\ TxCommit(s)
  /\ reply' = Reply("adjustPoints", 0, procs[s].pullerId, "ok")
  /\ sent' = {}
  /\ UNCHANGED << timers, told >>
  /\ UNCHANGED gateway

\* a save or the commit throws: catch, rollbackTransaction, rethrow
AdjustFails(s) ==
  /\ procs[s].op = "adjustPoints"
  /\ InTx(s)
  /\ procs' = Finish(s)
  /\ reply' = Reply("adjustPoints", 0, procs[s].pullerId, "error")
  /\ sent' = {}
  /\ UNCHANGED << rides, pullers, history, timers, told >>
  /\ UNCHANGED gateway

\* ------------------------------------------------------- adjustRidePoints
\* RidesService.adjustRidePoints: startTransaction, findOne, the guards,
\* ride.pointsAwarded = (ride.pointsAwarded || 0) + pointsAdjustment
AdjustRidePoints(s, rideId, points) ==
  /\ FreeSlot(s)
  /\ LedgerLoad < MaxHistory
  /\ sent' = {}
  /\ UNCHANGED << rides, pullers, history, timers, told >>
  /\ IF rideId \notin RideIds
     THEN /\ reply' = Reply("adjustRidePoints", rideId, 0, "NotFound")
          /\ UNCHANGED procs
     ELSE IF rides[rideId].puller = NoPuller
     THEN /\ reply' = Reply("adjustRidePoints", rideId, 0, "BadRequest")
          /\ UNCHANGED procs
     ELSE LET p == rides[rideId].puller
              oldPoints == IF rides[rideId].pointsAwarded = None
                           THEN 0 ELSE rides[rideId].pointsAwarded[1]
          IN
          /\ procs' = [ procs EXCEPT ![s] =
               [ Idle EXCEPT !.op = "adjustRidePoints", !.pc = "saveRide",
                             !.rideId = rideId, !.pullerId = p,
                             !.points = points,
                             !.ride = Some([ hydrate(rides[rideId]) EXCEPT
                                               !.pointsAwarded = Some(oldPoints + points) ]),
                             !.puller = Some([ pullers[p] EXCEPT
                                               !.pointsBalance = @ + points ]) ] ]
          /\ reply' = NoReply
  /\ UNCHANGED gateway

\* await queryRunner.manager.save(Ride, ride)
AdjustRideSaveRide(s) ==
  /\ procs[s].op = "adjustRidePoints"
  /\ procs[s].pc = "saveRide"
  /\ TxSave(s, "ride", "savePuller")
  /\ sent' = {}
  /\ reply' = NoReply
  /\ UNCHANGED << timers, told >>
  /\ UNCHANGED gateway

\* await queryRunner.manager.save(Puller, ride.puller)
AdjustRideSavePuller(s) ==
  /\ procs[s].op = "adjustRidePoints"
  /\ procs[s].pc = "savePuller"
  /\ TxSave(s, "puller", "saveHistory")
  /\ sent' = {}
  /\ reply' = NoReply
  /\ UNCHANGED << timers, told >>
  /\ UNCHANGED gateway

\* await queryRunner.manager.save(PointsHistory, pointsHistory)
AdjustRideSaveHistory(s) ==
  /\ procs[s].op = "adjustRidePoints"
  /\ procs[s].pc = "saveHistory"
  /\ TxSave(s, "history", "commit")
  /\ sent' = {}
  /\ reply' = NoReply
  /\ UNCHANGED << timers, told >>
  /\ UNCHANGED gateway

\* await queryRunner.commitTransaction()
AdjustRideCommit(s) ==
  /\ procs[s].op = "adjustRidePoints"
  /\ procs[s].pc = "commit"
  /\ TxCommit(s)
  /\ reply' = Reply("adjustRidePoints", procs[s].rideId, procs[s].pullerId, "ok")
  /\ sent' = {}
  /\ UNCHANGED << timers, told >>
  /\ UNCHANGED gateway

\* a save or the commit throws: catch, rollbackTransaction, rethrow
AdjustRideFails(s) ==
  /\ procs[s].op = "adjustRidePoints"
  /\ InTx(s)
  /\ procs' = Finish(s)
  /\ reply' = Reply("adjustRidePoints", procs[s].rideId, procs[s].pullerId, "error")
  /\ sent' = {}
  /\ UNCHANGED << rides, pullers, history, timers, told >>
  /\ UNCHANGED gateway

\* ---------------------------------------------------------- specification
\* the ride lifecycle: request, accept, reject, pickup, complete, expire
LifecycleNext ==
  \/ \E s \in Slots, data \in HardwarePayloads : HandleHardwareRideRequest(s, data)
  \/ \E s \in Slots : DistributeAndArm(s)
  \/ \E s \in Slots : DistributeFails(s)
  \/ \E s \in Slots, rideId \in RideIdInputs, pullerId \in PullerIdInputs :
       AcceptRide(s, rideId, pullerId)
  \/ \E s \in Slots : AcceptSave(s)
  \/ \E s \in Slots : AcceptNotify(s)
  \/ \E s \in Slots, rideId \in RideIdInputs, pullerId \in PullerIdInputs :
       RejectRide(s, rideId, pullerId)
  \/ \E s \in Slots : RejectSave(s)
  \/ \E s \in Slots, rideId \in RideIdInputs : PickupRide(s, rideId)
  \/ \E s \in Slots : PickupSave(s)
  \/ \E rideId \in RideIdInputs : AutoExpireRide(rideId)
  \/ \E rideId \in RideIdInputs : ExpireSave(rideId)
  \/ \E rideId \in RideIdInputs : ExpireNotify(rideId)
  \/ \E s \in Slots, rideId \in RideIdInputs, d \in Distances : CompleteRide(s, rideId, d)
  \/ \E s \in Slots : CompleteSaveRide(s)
  \/ \E s \in Slots : CompleteSavePuller(s)
  \/ \E s \in Slots : CompleteSaveHistory(s)
  \/ \E s \in Slots : CompleteCommit(s)
  \/ \E s \in Slots : CompleteFails(s)

\* the points ledger: settlement and the three manual adjustments
LedgerNext ==
  \/ \E s \in Slots, rideId \in RideIdInputs, d \in Distances : CompleteRide(s, rideId, d)
  \/ \E s \in Slots : CompleteSaveRide(s)
  \/ \E s \in Slots : CompleteSavePuller(s)
  \/ \E s \in Slots : CompleteSaveHistory(s)
  \/ \E s \in Slots : CompleteCommit(s)
  \/ \E s \in Slots : CompleteFails(s)
  \/ \E s \in Slots, pullerId \in PullerIdInputs, points \in Deltas :
       AdjustPoints(s, pullerId, points)
  \/ \E s \in Slots : AdjustSavePuller(s)
  \/ \E s \in Slots : AdjustSaveHistory(s)
  \/ \E s \in Slots : AdjustCommit(s)
  \/ \E s \in Slots : AdjustFails(s)
  \/ \E s \in Slots, rideId \in RideIdInputs, points \in Deltas :
       AdjustRidePoints(s, rideId, points)
  \/ \E s \in Slots : AdjustRideSaveRide(s)
  \/ \E s \in Slots : AdjustRideSavePuller(s)
  \/ \E s \in Slots : AdjustRideSaveHistory(s)
  \/ \E s \in Slots : AdjustRideCommit(s)
  \/ \E s \in Slots : AdjustRideFails(s)

Next == LifecycleNext \/ LedgerNext

\* the store the ledger is exercised on: every ride picked up and under way
\* (requested, accepted by a puller, picked up), its timer fired and skipped
ActiveRide(p) ==
  [ Ride("B1", "B2") EXCEPT !.status = "ACTIVE", !.puller = p,
                            !.acceptTime = TRUE, !.pickupTime = TRUE ]

LedgerInit ==
  /\ Unconnected
  /\ rides = [ i \in 1..MaxRides |-> ActiveRide(((i - 1) % NumPullers) + 1) ]
  /\ pullers = [ p \in Pullers |-> Puller(p) ]
  /\ history = EmptyBag
  /\ timers = [ i \in 1..MaxRides |->
                  [ NoTimer EXCEPT !.armed = 1, !.fired = 1, !.pc = "skipped" ] ]
  /\ procs = [ s \in Slots |-> Idle ]
  /\ sent = {}
  /\ reply = NoReply
  /\ told = { << i, ((i - 1) % NumPullers) + 1 >> : i \in 1..MaxRides }

Spec == Init /\ [][LifecycleNext]_vars

\* the settlement of rides under way at any distance from the destination
PointsNext ==
  \/ \E s \in Slots, rideId \in RideIdInputs, d \in DistanceInputs :
       CompleteRide(s, rideId, d)
  \/ \E s \in Slots : CompleteSaveRide(s)
  \/ \E s \in Slots : CompleteSavePuller(s)
  \/ \E s \in Slots : CompleteSaveHistory(s)
  \/ \E s \in Slots : CompleteCommit(s)
  \/ \E s \in Slots : CompleteFails(s)

PointsSpec == LedgerInit /\ [][PointsNext]_vars

\* the roster next to the ledger: rides under way are settled and balances
\* adjusted while pullers are created, updated, located, switched online or
\* offline, suspended and unsuspended
\* the puller the roster operations name: the puller of the rides under way
RosterInputs == { 1 }

RosterNext ==
  \/ \E s \in Slots, rideId \in RideIdInputs, d \in Distances : CompleteRide(s, rideId, d)
  \/ \E s \in Slots : CompleteSaveRide(s)
  \/ \E s \in Slots : CompleteSavePuller(s)
  \/ \E s \in Slots : CompleteSaveHistory(s)
  \/ \E s \in Slots : CompleteCommit(s)
  \/ \E s \in Slots, pullerId \in RosterInputs : UpdateLocation(s, pullerId, 2, 2)
  \/ \E s \in Slots : UpdateLocationSave(s)
  \/ \E s \in Slots, pullerId \in RosterInputs, isOnline \in BOOLEAN :
       SetOnlineStatusFind(s, pullerId, isOnline)
  \/ \E s \in Slots : SetOnlineStatusSave(s)
  \/ \E s \in Slots, pullerId \in RosterInputs : SuspendPuller(s, pullerId)
  \/ \E s \in Slots : SuspendPullerSave(s)
  \/ \E s \in Slots, pullerId \in RosterInputs : UnsuspendPuller(s, pullerId)
  \/ \E s \in Slots : UnsuspendPullerSave(s)
  \/ \E s \in Slots, pullerId \in RosterInputs, dto \in UpdatePullerDtos :
       UpdatePuller(s, pullerId, dto)
  \/ \E s \in Slots : UpdatePullerSave(s)
  \/ \E dto \in CreatePullerDtos : CreatePuller(dto)

RosterSpec == LedgerInit /\ [][RosterNext]_vars

\* several rides on offer at once, every one requested and distributed:
\* the pullers accept them and pick their passengers up
OfferedInit ==
  /\ Unconnected
  /\ rides = [ i \in OfferedRideIds |-> Ride("B1", "B2") ]
  /\ pullers = [ p \in Pullers |-> Puller(p) ]
  /\ history = EmptyBag
  /\ timers = [ i \in OfferedRideIds |->
                  [ NoTimer EXCEPT !.armed = 1, !.pc = "armed" ] ]
  /\ procs = [ s \in Slots |-> Idle ]
  /\ sent = {}
  /\ reply = NoReply
  /\ told = {}

AssignNext ==
  \/ \E s \in Slots, rideId \in OfferedRideIds, pullerId \in PullerIdInputs :
       AcceptRide(s, rideId, pullerId)
  \/ \E s \in Slots : AcceptSave(s)
  \/ \E s \in Slots : AcceptNotify(s)
  \/ \E s \in Slots, rideId \in OfferedRideIds : PickupRide(s, rideId)
  \/ \E s \in Slots : PickupSave(s)

AssignSpec == OfferedInit /\ [][AssignNext]_vars

\* the puller apps at the gateway: sockets connect, register pullers and
\* disconnect while targeted events are sent
GatewayInit ==
  /\ Unconnected
  /\ rides = << >>
  /\ pullers = [ p \in Pullers |-> [ Puller(p) EXCEPT !.isOnline = FALSE ] ]
  /\ history = EmptyBag
  /\ timers = << >>
  /\ procs = [ s \in Slots |-> Idle ]
  /\ sent = {}
  /\ reply = NoReply
  /\ told = {}

GatewayNext ==
  \/ \E client \in SocketIds : HandleConnection(client)
  \/ \E s \in Slots, client \in SocketIds, pullerId \in PullerIdInputs :
       HandlePullerRegistration(s, client, pullerId)
  \/ \E s \in Slots : RegistrationSave(s)
  \/ \E s \in Slots, client \in SocketIds : HandleDisconnect(s, client)
  \/ \E s \in Slots : DisconnectSave(s)
  \/ \E pullerId \in PullerIdInputs : SendToPuller(pullerId)

GatewaySpec == GatewayInit /\ [][GatewayNext]_vars

\* rides that were requested and distributed and wait for an answer: every
\* ride SEARCHING, its callback armed and not yet due
SearchingInit ==
  /\ Unconnected
  /\ rides = [ i \in 1..MaxRides |-> Ride("B1", "B2") ]
  /\ pullers = [ p \in Pullers |-> Puller(p) ]
  /\ history = EmptyBag
  /\ timers = [ i \in 1..MaxRides |->
                  [ NoTimer EXCEPT !.armed = 1, !.pc = "armed" ] ]
  /\ procs = [ s \in Slots |-> Idle ]
  /\ sent = {}
  /\ reply = NoReply
  /\ told = {}

\* the transitions of a distributed ride (accept, reject, pickup, complete,
\* expire) with notifications that may fail after the write
NotifyNext ==
  \/ \E s \in Slots, rideId \in RideIdInputs, pullerId \in PullerIdInputs :
       AcceptRide(s, rideId, pullerId)
  \/ \E s \in Slots : AcceptSave(s)
  \/ \E s \in Slots : AcceptNotify(s)
  \/ \E s \in Slots : AcceptNotifyFails(s)
  \/ \E s \in Slots, rideId \in RideIdInputs, pullerId \in PullerIdInputs :
       RejectRide(s, rideId, pullerId)
  \/ \E s \in Slots : RejectSave(s)
  \/ \E s \in Slots : RejectNotifyFails(s)
  \/ \E s \in Slots, rideId \in RideIdInputs : PickupRide(s, rideId)
  \/ \E s \in Slots : PickupSave(s)
  \/ \E s \in Slots : PickupNotifyFails(s)
  \/ \E rideId \in RideIdInputs : AutoExpireRide(rideId)
  \/ \E rideId \in RideIdInputs : ExpireSave(rideId)
  \/ \E rideId \in RideIdInputs : ExpireBroadcastFails(rideId)
  \/ \E rideId \in RideIdInputs : ExpireNotify(rideId)
  \/ \E rideId \in RideIdInputs : ExpireNotifyFails(rideId)
  \/ \E s \in Slots, rideId \in RideIdInputs, d \in Distances : CompleteRide(s, rideId, d)
  \/ \E s \in Slots : CompleteSaveRide(s)
  \/ \E s \in Slots : CompleteSavePuller(s)
  \/ \E s \in Slots : CompleteSaveHistory(s)
  \/ \E s \in Slots : CompleteCommit(s)
  \/ \E s \in Slots : CompleteNotifyFails(s)
  \/ \E s \in Slots : CompleteFails(s)

NotifySpec == SearchingInit /\ [][NotifyNext]_vars

\* the answers of the pullers to an offer: reject and accept
RejectNext ==
  \/ \E s \in Slots, rideId \in RideIdInputs, pullerId \in PullerIdInputs :
       RejectRideUpTo(s, rideId, pullerId, RejectCap)
  \/ \E s \in Slots : RejectSave(s)
  \/ \E s \in Slots, rideId \in RideIdInputs, pullerId \in PullerIdInputs :
       AcceptRide(s, rideId, pullerId)
  \/ \E s \in Slots : AcceptSave(s)
  \/ \E s \in Slots : AcceptNotify(s)

RejectSpec == SearchingInit /\ [][RejectNext]_vars

LedgerSpec == LedgerInit /\ [][LedgerNext]_vars

\* SEARCHING rides and pullers that went online or offline since
RedistributeInit ==
  /\ Unconnected
  /\ rides = [ i \in 1..MaxRides |-> Ride("B1", "B2") ]
  /\ pullers \in { [ p \in Pullers |-> [ Puller(p) EXCEPT !.isOnline = on[p] ] ] :
                     on \in [ Pullers -> BOOLEAN ] }
  /\ history = EmptyBag
  /\ timers = [ i \in 1..MaxRides |->
                  [ NoTimer EXCEPT !.armed = 1, !.pc = "armed" ] ]
  /\ procs = [ s \in Slots |-> Idle ]
  /\ sent = {}
  /\ reply = NoReply
  /\ told = {}

\* the earlier rejectRide, which redistributes the ride
RedistributeNext ==
  \/ \E s \in Slots, rideId \in RideIdInputs, pullerId \in PullerIdInputs :
       RejectRideUpTo(s, rideId, pullerId, RejectCap)
  \/ \E s \in Slots : RejectSaveEarlier(s)
  \/ \E s \in Slots : RedistributeRideToNextPuller(s)

RedistributeSpec == RedistributeInit /\ [][RedistributeNext]_vars

\* the pullers table at dispatch: a few pullers in every combination of
\* online, active and location (none, on an axis, off the axes), or a fleet
\* of pullers on duty at one of two distances
Coordinates == { None, Some(0), Some(1) }

FewPullers ==
  { [ p \in Pullers |->
        [ Puller(p) EXCEPT !.isOnline = on[p], !.isActive = act[p],
                           !.lastKnownLat = lat[p], !.lastKnownLon = lon[p] ] ] :
      on \in [ Pullers -> BOOLEAN ], act \in [ Pullers -> BOOLEAN ],
      lat \in [ Pullers -> Coordinates ], lon \in [ Pullers -> Coordinates ] }

Fleet ==
  UNION { { [ p \in 1..n |->
                [ Puller(p) EXCEPT !.isOnline = TRUE,
                                   !.lastKnownLat = Some(lat[p]) ] ] :
              lat \in [ 1..n -> {1, 2} ] } :
          n \in (MaxTable - 2)..MaxTable }

DispatchInit ==
  /\ Unconnected
  /\ rides = << >>
  /\ pullers \in FewPullers \cup Fleet
  /\ history = EmptyBag
  /\ timers = << >>
  /\ procs = [ s \in Slots |-> Idle ]
  /\ sent = {}
  /\ reply = NoReply
  /\ told = {}

\* the hardware ride request and its distribution
DispatchNext ==
  \/ \E s \in Slots, data \in HardwarePayloads : HandleHardwareRideRequest(s, data)
  \/ \E s \in Slots : DistributeAndArm(s)
  \/ \E s \in Slots : DistributeFails(s)

DispatchSpec == DispatchInit /\ [][DispatchNext]_vars

\* the pullers table at a ride request: every puller offline, active or
\* suspended, with or without a reported location
OffDuty ==
  { [ p \in Pullers |->
        [ Puller(p) EXCEPT !.isOnline = FALSE, !.isActive = act[p],
                           !.lastKnownLat = lat[p] ] ] :
      act \in [ Pullers -> BOOLEAN ], lat \in [ Pullers -> { None, Some(1) } ] }

ExpiryInit ==
  /\ Unconnected
  /\ rides = << >>
  /\ pullers \in OffDuty
  /\ history = EmptyBag
  /\ timers = << >>
  /\ procs = [ s \in Slots |-> Idle ]
  /\ sent = {}
  /\ reply = NoReply
  /\ told = {}

\* a ride that nobody answers: request, distribution, expiry, while pullers
\* go online and offline
ExpiryNext ==
  \/ \E s \in Slots, data \in HardwarePayloads : HandleHardwareRideRequest(s, data)
  \/ \E s \in Slots : DistributeAndArm(s)
  \/ \E s \in Slots : DistributeFails(s)
  \/ \E rideId \in RideIdInputs : AutoExpireRide(rideId)
  \/ \E rideId \in RideIdInputs : ExpireSave(rideId)
  \/ \E rideId \in RideIdInputs : ExpireNotify(rideId)
  \/ \E pullerId \in PullerIdInputs, isOnline \in BOOLEAN :
       SetOnlineStatus(pullerId, isOnline)

ExpirySpec == ExpiryInit /\ [][ExpiryNext]_vars

\* the handler continuations of slot s and the callback of ride r: the
\* event loop runs every continuation whose await has settled and every
\* timer that is due; nothing obliges a client to send a new request
Continue(s) ==
  \/ DistributeAndArm(s) \/ DistributeFails(s)
  \/ AcceptSave(s) \/ AcceptNotify(s)
  \/ RejectSave(s)
  \/ PickupSave(s)
  \/ CompleteSaveRide(s) \/ CompleteSavePuller(s) \/ CompleteSaveHistory(s)
  \/ CompleteCommit(s) \/ CompleteFails(s)

Callback(rideId) ==
  AutoExpireRide(rideId) \/ ExpireSave(rideId) \/ ExpireNotify(rideId)

FairSpec ==
  /\ Spec
  /\ \A s \in Slots : WF_vars(Continue(s))
  /\ \A rideId \in RideIdInputs : WF_vars(Callback(rideId))

\* the unanswered ride under the same scheduling
ExpiryFairSpec ==
  /\ ExpirySpec
  /\ \A s \in Slots : WF_vars(Continue(s))
  /\ \A rideId \in RideIdInputs : WF_vars(Callback(rideId))

\* ================================================================ claims
Edges ==
  { << "SEARCHING", "ACCEPTED" >>, << "ACCEPTED", "ACTIVE" >>,
    << "ACTIVE", "COMPLETED" >>, << "SEARCHING", "EXPIRED" >> }

Assigned == { "ACCEPTED", "ACTIVE", "COMPLETED" }

\* C1: of the acceptRide calls of different pullers on one ride at most one
\* is told it succeeded, and the ride then is ACCEPTED with that caller as
\* its puller.
C1_ExactlyOneAcceptSucceeds ==
  \A r \in RideIds : \A p, q \in Pullers :
    (<< r, p >> \in told /\ << r, q >> \in told) => p = q

\* C2: every change of a ride's stored status follows an edge of the
\* lifecycle graph.
C2_StatusFollowsGraph ==
  [][ \A r \in RideIds :
        \/ rides'[r].status = rides[r].status
        \/ << rides[r].status, rides'[r].status >> \in Edges ]_vars

\* C3: settlement is all-or-nothing.  The step of a completeRide invocation
\* that commits makes the three writes visible together: the ride COMPLETED
\* with pointsAwarded = p, the puller's balance the balance the invocation
\* read plus p, and one more RIDE_COMPLETION row of p points for that puller
\* and ride.  Every other step of the invocation, a failure at any of the
\* writes or at the commit included, leaves the store as it was.
C3_SettlementAllOrNothing ==
  [][ \A s \in Slots :
        (procs[s].op = "completeRide" /\ procs'[s] # procs[s]) =>
          LET pr == procs[s]
              row == PointsHistory(pr.pullerId, pr.rideId, pr.points,
                                   "RIDE_COMPLETION")
          IN  IF reply' = Reply("completeRide", pr.rideId, pr.pullerId, "ok")
              THEN /\ rides'[pr.rideId].status = "COMPLETED"
                   /\ rides'[pr.rideId].pointsAwarded = Some(pr.points)
                   /\ pullers'[pr.pullerId].pointsBalance =
                        pr.puller[1].pointsBalance
                   /\ history' = history (+) SetToBag({ row })
              ELSE /\ rides' = rides
                   /\ pullers' = pullers
                   /\ history' = history ]_vars

\* a completeRide invocation has made its three saves and has not committed:
\* the store shows none of them
C3_Witness ==
  \E s \in Slots :
    /\ procs[s].op = "completeRide"
    /\ procs[s].tx = { "ride", "puller", "history" }
    /\ rides[procs[s].rideId].status = "ACTIVE"
    /\ rides[procs[s].rideId].pointsAwarded = None
    /\ history = EmptyBag

\* C4: the balance of a puller is the sum of the pointsChange of the
\* puller's PointsHistory rows.
RECURSIVE SumOfChanges(_, _)
SumOfChanges(B, S) ==
  IF S = {} THEN 0
  ELSE LET r == CHOOSE x \in S : TRUE
       IN  CopiesIn(r, B) * r.pointsChange + SumOfChanges(B, S \ {r})

HistorySum(p) ==
  SumOfChanges(history, { r \in BagToSet(history) : r.puller = p })

C4_BalanceIsHistorySum ==
  \A p \in Pullers : pullers[p].pointsBalance = HistorySum(p)

\* C11: a puller that rejected a ride is never the ride's assigned puller:
\* in every state the puller of a ride is not among its rejectedByPullers.
Rejected(r) ==
  { rides[r].rejectedByPullers[i] : i \in 1..Len(rides[r].rejectedByPullers) }

C11_RejecterNeverAssigned ==
  \A r \in RideIds :
    rides[r].puller # NoPuller => rides[r].puller \notin Rejected(r)

\* C12: the stored rejectedByPullers of a ride only grows, every id once
\* present stays present, and it never holds the same id twice.
C12_RejectedGrowsWithoutDuplicates ==
  [][ \A r \in RideIds :
        LET old == rides[r].rejectedByPullers
            new == rides'[r].rejectedByPullers
        IN  /\ \A i \in 1..Len(old) : \E j \in 1..Len(new) : new[j] = old[i]
            /\ \A i, j \in 1..Len(new) : new[i] = new[j] => i = j ]_vars

\* C13: a rejectRide call that records a first rejection of a SEARCHING ride
\* sends exactly one offer for the ride, to the nearest puller that is
\* online, active, has a location and has not rejected the ride, when there
\* is such a puller; when there is none it sends no offer and the ride stays
\* SEARCHING.
Eligible(ps, row) ==
  { p \in DOMAIN ps :
      /\ ps[p].isOnline /\ ps[p].isActive
      /\ ps[p].lastKnownLat # None /\ ps[p].lastKnownLon # None
      /\ \A i \in 1..Len(row.rejectedByPullers) : row.rejectedByPullers[i] # p }

Offers(msgs, r) ==
  { m \in msgs : m.type = "ride-request" /\ m.rideId = r }

Nearest(S, row) ==
  { p \in S : \A q \in S : distance(p, row) <= distance(q, row) }

C13_RejectSendsOneOffer ==
  [][ \A s \in Slots :
        (procs[s].op = "rejectRide" /\ procs'[s] = Idle
           /\ reply' = Reply("rejectRide", procs[s].rideId, procs[s].pullerId, "ok")) =>
          LET r == procs[s].rideId
              offers == Offers(sent', r)
              eligible == Eligible(pullers, rides'[r])
          IN  IF eligible # {}
              THEN /\ Cardinality(offers) = 1
                   /\ \A m \in offers : m.to \in Nearest(eligible, rides[r])
              ELSE /\ offers = {}
                   /\ rides'[r].status = "SEARCHING" ]_vars

\* C14: no offer for a ride is sent to a puller whose rejection of the ride
\* is recorded in the stored rejectedByPullers.
C14_NoOfferToRejecter ==
  [][ \A r \in RideIds : \A m \in Offers(sent', r) :
        m.to \notin Rejected(r) ]_vars

\* C15: the distribution of a new ride offers it to exactly min(10, n) of
\* the n pullers of the candidate pool, one offer each, and no candidate
\* left out is strictly nearer to the pickup block than one that is offered.
CandidatePool ==
  { p \in DOMAIN pullers :
      /\ pullers[p].isOnline /\ pullers[p].isActive
      /\ pullers[p].lastKnownLat # None /\ pullers[p].lastKnownLon # None }

Distributed(s) ==
  /\ procs[s].op = "createRideFromHardware"
  /\ procs'[s] = Idle
  /\ reply' = Reply("ride-request", procs[s].rideId, 0, "received")

Offered(msgs, r) == { m.to : m \in Offers(msgs, r) }

C15_OffersToTenNearest ==
  [][ \A s \in Slots : Distributed(s) =>
        LET r == procs[s].rideId
            offered == Offered(sent', r)
            n == Cardinality(CandidatePool)
        IN  /\ offered \subseteq CandidatePool
            /\ Cardinality(offered) = IF n < 10 THEN n ELSE 10
            /\ Cardinality(Offers(sent', r)) = Cardinality(offered)
            /\ \A p \in CandidatePool \ offered : \A q \in offered :
                  distance(p, rides[r]) >= distance(q, rides[r]) ]_vars

\* C16: the distribution offers a ride only to pullers that are online,
\* active and have a location, and a pool of at most 10 such pullers is
\* offered the ride whole, whatever the coordinates are.
C16_PoolIsOnlineActiveLocated ==
  [][ \A s \in Slots : Distributed(s) =>
        LET offered == Offered(sent', procs[s].rideId)
        IN  /\ offered \subseteq CandidatePool
            /\ Cardinality(CandidatePool) <= 10 => CandidatePool \subseteq offered ]_vars

\* C17: a call that violates a status guard fails with a bad request error
\* and changes nothing: acceptRide and rejectRide on a ride that is not
\* SEARCHING, pickupRide on a ride that is not ACCEPTED, completeRide on a
\* ride that is not ACTIVE or has no puller.  The store is as it was, nothing
\* is sent and the call is over.
Refused(op, r, res) ==
  /\ reply' = Reply(op, r, 0, res)
  /\ rides' = rides /\ pullers' = pullers /\ history' = history
  /\ timers' = timers /\ procs' = procs
  /\ sent' = {}
  /\ UNCHANGED gateway

C19_FailureRollsBack ==
  [][ \A s \in Slots :
        LET r == procs[s].rideId
            p == procs[s].pullerId
        IN  (/\ procs[s].op = "completeRide"
             /\ procs'[s].op = "idle"
             /\ reply'.op = "completeRide" /\ reply'.rideId = r
             /\ reply'.res \in {"error", "notification-error"}) =>
              /\ rides' = rides /\ pullers' = pullers /\ history' = history
              /\ rides[r].status = "ACTIVE" => rides'[r].status = "ACTIVE"
              /\ (\A h \in BagToSet(history') : h.ride # r) =>
                   /\ rides'[r].status # "COMPLETED"
                   /\ rides'[r].completionTime = FALSE
                   /\ rides'[r].pointsAwarded = None
              /\ (\A h \in BagToSet(history') : h.puller # p) =>
                   pullers'[p].pointsBalance = Puller(p).pointsBalance ]_vars

\* what the store holds once the write of invocation s is committed
Committed(s) ==
  IF procs[s].op = "acceptRide" THEN Store
  ELSE IF procs[s].op = "completeRide" THEN commitTransaction(Store, procs[s])
  ELSE ApplyWrite(Store, procs[s], "ride")

\* C20: a failure of a broadcast or publish after the write of an accept,
\* reject, pickup, complete or expire leaves the store as committed: the
\* step on which the notification fails ends with the rides, the balances
\* and the ledger holding exactly the committed transition.
C20_NotifyFailureKeepsTransition ==
  [][ /\ \A s \in Slots :
           (/\ procs[s].op # "idle"
            /\ procs'[s].op = "idle"
            /\ reply' = Reply(procs[s].op, procs[s].rideId, procs[s].pullerId,
                              "notification-error")) =>
             /\ rides' = Committed(s).rides
             /\ pullers' = Committed(s).pullers
             /\ history' = Committed(s).history
      /\ \A r \in RideIds :
           (timers[r].pc \in {"save", "notify"} /\ timers'[r].pc = "failed") =>
             /\ timers[r].pc = "save" =>
                  rides' = [ rides EXCEPT ![r] = persist(timers[r].ride[1]) ]
             /\ timers[r].pc = "notify" => rides' = rides
             /\ pullers' = pullers /\ history' = history ]_vars

\* the publication of a completed ride has failed and the settlement is in
\* the store: ride COMPLETED, the points on the balance and in the ledger
C20_Witness ==
  \E r \in RideIds :
    /\ reply.op = "completeRide" /\ reply.rideId = r
    /\ reply.res = "notification-error"
    /\ rides[r].status = "COMPLETED"
    /\ rides[r].pointsAwarded # None
    /\ \E h \in BagToSet(history) :
         /\ h.ride = r /\ h.reason = "RIDE_COMPLETION"
         /\ pullers[h.puller].pointsBalance = h.pointsChange

\* the status the transition announced by message m writes
Announced(m) ==
  IF m.type \in {"ride-filled", "ride_filled"} THEN "ACCEPTED"
  ELSE IF m.type = "ride-expired" THEN "EXPIRED"
  ELSE IF m.type = "ride-completed" THEN "COMPLETED"
  ELSE IF m.type \in {"ride-request", "ride-rejected"} THEN "SEARCHING"
  ELSE m.info

\* invocation s (the callback of ride r) has its write behind it and is at
\* its notifications
PastTheSave(r) ==
  \/ \E s \in Slots : procs[s].rideId = r /\ procs[s].pc \in {"notify", "distribute"}
  \/ timers[r].pc = "notify"

\* C21: the broadcast and every offer or notice of a transition are emitted
\* only after the write of that transition is committed: a step that emits a
\* message about a ride either ends with the store holding the announced
\* status of that ride (the write precedes the emission inside the step) or
\* is taken by an invocation that has completed its save; a step that holds
\* its writes in an open transaction, or rolls them back, emits nothing.
C21_EmittedAfterCommit ==
  [][ /\ \A m \in sent' :
           /\ m.rideId \in 1..Len(rides')
           /\ \/ rides'[m.rideId].status = Announced(m)
              \/ m.rideId \in RideIds /\ PastTheSave(m.rideId)
      /\ \A s \in Slots :
           (InTx(s) /\ procs'[s] # procs[s] /\ history' = history) =>
             sent' = {} ]_vars

\* the completion of a ride is being announced and the settlement is stored
C21_Witness ==
  \E m \in sent :
    /\ m.type = "ride-completed"
    /\ rides[m.rideId].status = "COMPLETED"
    /\ \E h \in BagToSet(history) : h.ride = m.rideId

\* the messages of msgs that are addressed to a puller
ToPullers(msgs) ==
  { m \in msgs : m.type \in {"ride-request", "ride-expired", "ride-rejected"} }

\* a puller has just come online while a ride exists
CameOnline ==
  /\ rides # << >>
  /\ \E m \in sent : m.type = "puller_status_update" /\ m.info = "online"

\* C22: a ride requested while no puller is a candidate, and with no puller
\* coming online afterwards, stays SEARCHING and is offered to nobody, then
\* is EXPIRED once its callback has run, and no message is ever addressed
\* to a puller: if the candidate pool is empty throughout and no puller
\* comes online after the request, then throughout no message to a puller
\* is sent and every ride is SEARCHING until its callback has written the
\* expiry, and EXPIRED from then on.
C22_NoCandidateNoPullerMessage ==
  ([](CandidatePool = {}) /\ [](~ CameOnline)) =>
    [](/\ ToPullers(sent) = {}
       /\ \A r \in RideIds :
            IF timers[r].pc \in {"notify", "done"}
            THEN rides[r].status = "EXPIRED"
            ELSE rides[r].status = "SEARCHING")

\* the pullers the messages msgs give notice of the expiry of ride r
Noticed(msgs, r) ==
  { m.to : m \in { x \in msgs : x.type = "ride-expired" /\ x.rideId = r } }

C24_OfferedPullersNoticed ==
  \A r \in RideIdInputs : \A p \in Pullers :
    []((\E m \in Offers(sent, r) : m.to = p) =>
         [](Msg("ride-status", r, 0, "EXPIRED") \in sent =>
              Msg("ride-expired", r, p, "EXPIRED") \in sent))

\* max(0, floor(10 - d / 10)) for a distance of d whole meters
PointsFormula(d) ==
  LET v == (100 - d) \div 10 IN IF v > 0 THEN v ELSE 0

\* invocation s starts the completion of ride r at distance d in this step
Completing(s, r, d) ==
  /\ FreeSlot(s)
  /\ CompleteRide(s, r, d)
  /\ procs'[s].op = "completeRide"

\* invocation s commits its settlement in this step
Settling(s) ==
  /\ procs[s].op = "completeRide" /\ procs[s].pc = "commit"
  /\ procs'[s].op = "idle"
  /\ reply' = Reply("completeRide", procs[s].rideId, procs[s].pullerId, "ok")

EstimateFormula(d) ==
  LET v == 10 - (d \div 100) IN IF v > 5 THEN v ELSE 5

\* C26: every offer, of the initial batch or sent after a rejection, carries
\* estimatedPoints = max(5, 10 - floor(d/100)) for the distance d of its
\* puller from the pickup block, a value in 5..10.
C26_OfferCarriesEstimate ==
  [][ \A m \in sent' :
        m.type = "ride-request" =>
          /\ m.estimatedPoints = EstimateFormula(distance(m.to, rides[m.rideId]))
          /\ m.estimatedPoints \in 5..10 ]_vars

\* C27: in every stored state a ride has pointsAwarded set only if its
\* status is COMPLETED: no operation, adjustRidePoints included, gives
\* pointsAwarded to a ride that is SEARCHING, ACCEPTED, ACTIVE or EXPIRED.
C27_PointsOnlyWhenCompleted ==
  \A r \in RideIds :
    rides[r].pointsAwarded # None => rides[r].status = "COMPLETED"

\* C28: whenever pointsAwarded is set on a stored ride it is an integer
\* that is at least 0, after any sequence of completions and of ride-level
\* adjustments with signed deltas.
C28_PointsAwardedNotNegative ==
  \A r \in RideIds :
    rides[r].pointsAwarded # None =>
      /\ rides[r].pointsAwarded[1] \in Int
      /\ rides[r].pointsAwarded[1] >= 0

\* C29: rejectRide is idempotent per puller: a rejectRide(rideId, P) that
\* loads a SEARCHING ride whose rejectedByPullers already holds P writes
\* nothing to the store and sends no confirmation and no offer, so the ride
\* stays exactly as the first call left it.
LoadedWithRejecter(s) ==
  /\ procs[s].op = "rejectRide"
  /\ procs[s].ride # None
  /\ LET list == procs[s].ride[1].rejectedByPullers
     IN  \E i \in 1..(Len(list) - 1) : list[i].v = procs[s].pullerId

C29_SecondRejectIsNoOp ==
  [][ \A s \in Slots :
        (LoadedWithRejecter(s) /\ procs'[s].op = "idle") =>
          /\ rides' = rides
          /\ sent' = {} ]_vars

\* C30: for every ride at most one ride-filled notification is ever
\* published; it is published only after the ride is stored ACCEPTED (by an
\* acceptRide that has its save behind it), and the puller it carries is the
\* assigned puller of the stored ride.
C30_OneRideFilled ==
  [][ \A m \in sent' :
        m.type = "ride-filled" =>
          /\ \A p \in Pullers : << m.rideId, p >> \notin told
          /\ \E s \in Slots :
               /\ procs[s].op = "acceptRide" /\ procs[s].pc = "notify"
               /\ procs[s].rideId = m.rideId
          /\ rides'[m.rideId].puller = m.to ]_vars

\* C31: the balance of a puller is changed only by the settlement ledger: a
\* step that changes a stored pointsBalance appends a PointsHistory row of
\* that puller whose pointsChange is the change of the balance (completeRide
\* and the manual adjustments); creation, update, location update, status
\* update, suspend and unsuspend leave every balance as it is, and a puller
\* that is created starts with the balance 0 of its empty history.
C31_BalanceChangedOnlyByLedger ==
  [][ /\ \A p \in DOMAIN pullers :
           pullers'[p].pointsBalance # pullers[p].pointsBalance =>
             \E h \in BagToSet(history') :
               /\ h.puller = p
               /\ h.pointsChange = pullers'[p].pointsBalance - pullers[p].pointsBalance
               /\ CopiesIn(h, history') = CopiesIn(h, history) + 1
      /\ \A p \in DOMAIN pullers' \ DOMAIN pullers :
           pullers'[p].pointsBalance = 0 ]_vars

\* C32: a manual adjustment with delta x on puller P that succeeds adds
\* exactly x to the stored pointsBalance of P and appends exactly one
\* PointsHistory row (pointsChange x, reason MANUAL_ADJUSTMENT) in the same
\* step, whatever the state of the rides, and leaves the status, the puller
\* and the timestamps of every ride unchanged; the adjustment of a puller
\* that does not exist answers NotFound and writes nothing.
C32_ManualAdjustmentFrame ==
  [][ /\ \A s \in Slots :
           ( /\ procs[s].op \in {"adjustPoints", "adjustRidePoints"}
             /\ procs'[s].op = "idle"
             /\ reply'.res = "ok" ) =>
             LET P == procs[s].pullerId
                 x == procs[s].points
             IN
             /\ pullers'[P].pointsBalance = pullers[P].pointsBalance + x
             /\ \E h \in BagToSet(history') :
                  /\ h.puller = P /\ h.pointsChange = x
                  /\ h.reason = "MANUAL_ADJUSTMENT"
                  /\ history' = history (+) SetToBag({h})
             /\ \A r \in RideIds :
                  /\ rides'[r].status = rides[r].status
                  /\ rides'[r].puller = rides[r].puller
                  /\ rides'[r].acceptTime = rides[r].acceptTime
                  /\ rides'[r].pickupTime = rides[r].pickupTime
                  /\ rides'[r].completionTime = rides[r].completionTime
      /\ (reply'.op = "adjustPoints" /\ reply'.res = "NotFound") =>
           UNCHANGED << rides, pullers, history >> ]_vars

\* C33: a ride is settled at most once: whatever completeRide calls run on
\* it, in sequence or interleaved, the ledger holds at most one
\* RIDE_COMPLETION row of the ride, and a completeRide that succeeds finds
\* the stored ride ACTIVE and not yet settled.
Settlements(r) ==
  { h \in BagToSet(history) : h.ride = r /\ h.reason = "RIDE_COMPLETION" }

C33_SettledAtMostOnce ==
  [][ \A s \in Slots :
        ( /\ procs[s].op = "completeRide"
          /\ procs'[s].op = "idle"
          /\ reply'.res = "ok" ) =>
          /\ rides[procs[s].rideId].status = "ACTIVE"
          /\ Settlements(procs[s].rideId) = {} ]_vars

\* C34: no balance update is lost: when a completion and another
\* point-changing transaction on the same puller (a manual adjustment, a
\* second completion) run concurrently, the commit of each adds its delta
\* to the balance the store holds, so that both deltas take effect.
PointChanging == {"completeRide", "adjustPoints", "adjustRidePoints"}

Commits(s) ==
  /\ procs[s].op \in PointChanging
  /\ procs[s].pc = "commit"
  /\ procs'[s].op = "idle"
  /\ history' # history

C34_NoLostBalanceUpdate ==
  [][ \A s \in Slots :
        ( /\ Commits(s)
          /\ \/ procs[s].op = "completeRide"
             \/ \E h \in BagToSet(history) :
                  h.puller = procs[s].pullerId /\ h.reason = "RIDE_COMPLETION" ) =>
          pullers'[procs[s].pullerId].pointsBalance =
            pullers[procs[s].pullerId].pointsBalance + procs[s].points ]_vars

\* C35: rejectRide changes nothing of a ride but rejectedByPullers: the
\* step in which a rejectRide call ends leaves the stored status, puller,
\* acceptTime, pickupTime, completionTime and pointsAwarded of its ride as
\* the store holds them, also when the acceptRide of another puller has
\* been saved since the call read the ride.
C35_RejectKeepsTheRest ==
  [][ \A s \in Slots :
        (procs[s].op = "rejectRide" /\ procs'[s].op = "idle") =>
          LET r == procs[s].rideId IN
          rides'[r] = [ rides[r] EXCEPT
                          !.rejectedByPullers = rides'[r].rejectedByPullers ] ]_vars

\* C36: no offer is sent for a ride whose stored status is not SEARCHING at
\* the moment of sending: every ride-request a step sends, in the initial
\* distribution or as a re-offer, names a ride the store holds SEARCHING.
C36_OffersOnlyWhileSearching ==
  [][ \A m \in sent' :
        m.type = "ride-request" => rides'[m.rideId].status = "SEARCHING" ]_vars

\* C37: completeRide changes only pointsBalance on the row of the puller:
\* the row its save of the puller writes has the isOnline, isActive,
\* lastKnownLat and lastKnownLon the store holds at that moment, also when a
\* location or status update of the puller was saved after completeRide
\* read the ride.
C37_CompleteKeepsPullerRow ==
  [][ \A s \in Slots :
        ( /\ procs[s].op = "completeRide"
          /\ procs[s].pc = "savePuller"
          /\ procs'[s].pc = "saveHistory" ) =>
          LET P == procs[s].pullerId
              written == procs[s].puller[1]
          IN  written = [ pullers[P] EXCEPT
                            !.pointsBalance = written.pointsBalance ] ]_vars

\* C38: at any time a puller is the assigned puller of at most one ride
\* whose status is ACCEPTED or ACTIVE.
Engaged(p) ==
  { r \in RideIds : rides[r].puller = p /\ rides[r].status \in {"ACCEPTED", "ACTIVE"} }

C38_OneRidePerPuller ==
  \A p \in Pullers : Cardinality(Engaged(p)) <= 1

\* C39: the registry never keeps a dead connection: no entry of
\* connectedPullers maps a puller to a socket whose handleDisconnect has
\* run, whatever register_puller messages and disconnects came before, and
\* a targeted event is emitted to a connected socket only.
C39_NoDeadConnection ==
  /\ \A i \in 1..Len(connectedPullers) :
       sockets[connectedPullers[i].socketId] # "disconnected"
  /\ \A m \in sent :
       m.type = "new_ride_request" => sockets[m.socketId] = "connected"

\* C5: a ride one of whose acceptRide calls returned success is not EXPIRED.
C5_AcceptedNeverExpired ==
  \A r \in RideIds :
    (\E p \in Pullers : << r, p >> \in told) => rides[r].status # "EXPIRED"

\* C6: a ride-request event with the documented payload
\* {startBlockId, destinationBlockId} naming existing blocks creates a ride
\* in SEARCHING with those blocks.
DocumentedPayloads ==
  { d \in HardwarePayloads :
      d.startBlockId \in BlockIds /\ d.destinationBlockId \in BlockIds }

C6_DocumentedPayloadCreatesRide ==
  [][ \A s \in Slots : \A d \in DocumentedPayloads :
        (HandleHardwareRideRequest(s, d) /\ Len(rides) < MaxRides) =>
          /\ Len(rides') = Len(rides) + 1
          /\ rides'[Len(rides')].status = "SEARCHING"
          /\ rides'[Len(rides')].startBlock = d.startBlockId
          /\ rides'[Len(rides')].destinationBlock = d.destinationBlockId ]_vars

\* C7: every ride persisted in SEARCHING eventually leaves SEARCHING for
\* good, when armed timers fire and pending handlers run.
C7_SearchingEventuallyLeft ==
  \A r \in RideIdInputs :
    <>[](r \notin RideIds \/ rides[r].status # "SEARCHING")

\* C8: once createRideFromHardware is over for a ride it persisted, exactly
\* one expiration callback is armed for the ride, and it fires at most once.
Creating(r) ==
  \E s \in Slots : procs[s].op = "createRideFromHardware" /\ procs[s].rideId = r

C8_ExactlyOneTimer ==
  \A r \in RideIds :
    ~ Creating(r) => (timers[r].armed = 1 /\ timers[r].fired <= 1)

\* C9: a callback that fires on a ride that is not SEARCHING returns at
\* once: the store is as it was, nothing is published, and the callback
\* takes no further step.
C9_ExpireSkipsNonSearching ==
  [][ \A r \in RideIds :
        /\ (timers[r].pc = "armed" /\ timers'[r] # timers[r]
              /\ rides[r].status # "SEARCHING") =>
             (timers'[r].pc = "skipped" /\ rides' = rides /\ pullers' = pullers
                /\ history' = history /\ sent' = {})
        /\ timers[r].pc = "skipped" => timers'[r] = timers[r] ]_vars

C9_Witness ==
  \E r \in RideIds :
    timers[r].pc = "skipped" /\ rides[r].status \in Assigned

====
